---------------------------- MODULE Spec2Model ----------------------------
(***************************************************************************)
(* A model of stactools-modis item/collection creation                     *)
(* (src/stactools/modis/stac.py, src/stactools/modis/constants.py) and of  *)
(* the footprint core it calls (stactools.modis.builder and                *)
(* stactools.modis.sinusoidal, whose sources are not part of the tree and  *)
(* are modelled from sections 3-7 of the design description).              *)
(*                                                                         *)
(* Numbers: TLC integers are 32 bit, so the sinusoidal plane is kept in    *)
(* exact rational tile units and geographic degrees in fixed point with    *)
(* GeoScale units per degree.                                              *)
(***************************************************************************)
EXTENDS Integers, Sequences, FiniteSets, TLC

(***************************************************************************)
(* Bounds of the model.                                                    *)
(***************************************************************************)
\* Pixels per tile edge of the rasters read in raster-footprint mode (the
\* products' real values, 1200/2400/4800, are used in full-tile mode).
PixelsPerEdge == 3
\* Fixed-point units per degree of a Geographic Point (the program rounds to
\* 10^-PRECISION degrees; 10^6 units per degree do not fit TLC's integers).
GeoScale == 100
\* Largest number of band fragments of a product in create_collection.
MaxBands == 2

(***************************************************************************)
(* constants.py: the sinusoidal grid.  SINUSOIDAL_TILE_METERS divided by   *)
(* SINUSOIDAL_SPHERE_RADIUS is pi/18 (10.00000000003 degrees of arc), and  *)
(* SINUSOIDAL_X_MIN = -18 and SINUSOIDAL_Y_MAX = 9 tile edges, to the 12   *)
(* digits the constants are given with.  Lengths are in tile edges.        *)
(***************************************************************************)
PRECISION == 6
TileDegrees == 10
SINUSOIDAL_X_MIN == -18
SINUSOIDAL_Y_MAX == 9
\* Tiles per half turn (180 degrees) of the sphere.
HalfTurnTiles == 180 \div TileDegrees
\* The grid spans 36 columns and 18 rows of tiles.
GridColumns == -2 * SINUSOIDAL_X_MIN
GridRows == 2 * SINUSOIDAL_Y_MAX
\* Tile positions whose corners stay off the poles.  Rows 0 and GridRows-1
\* have an edge at latitude +-90 degrees, where the inverse projection divides
\* by cos(latitude) = 0 (the degeneracy section 4.1 documents).
AllTiles == {<<h, v>> : h \in 0..(GridColumns - 1), v \in 1..(GridRows - 2)}
\* The tile whose raster is read in raster-footprint mode.
RasterTiles == {<<10, 5>>}

(***************************************************************************)
(* constants.py: COLLECTION_FOOTPRINT_METADATA.  The dict literal, entry   *)
(* by entry in source order (the key "13Q1" is written twice).             *)
(***************************************************************************)
LstAssets == <<"LST_Day_1km", "LST_Night_1km", "Emis_31", "Emis_32">>
SurReflAssets(n) == [b \in 1..n |->
   <<"sur_refl_b01", "sur_refl_b02", "sur_refl_b03", "sur_refl_b04",
     "sur_refl_b05", "sur_refl_b06", "sur_refl_b07">>[b]]
NadirAssets == <<"Nadir_Reflectance_Band1", "Nadir_Reflectance_Band2",
   "Nadir_Reflectance_Band3", "Nadir_Reflectance_Band4",
   "Nadir_Reflectance_Band5", "Nadir_Reflectance_Band6",
   "Nadir_Reflectance_Band7">>

FootprintLiteral == <<
   [key |-> "11A1", value |-> [sin_tile_pixels |-> 1200, footprint_assets |-> LstAssets]],
   [key |-> "11A2", value |-> [sin_tile_pixels |-> 1200, footprint_assets |-> LstAssets]],
   [key |-> "14A1", value |-> [sin_tile_pixels |-> 1200, footprint_assets |-> <<"FireMask">>,
                               footprint_asset_bands |-> <<>>]],
   [key |-> "14A2", value |-> [sin_tile_pixels |-> 1200, footprint_assets |-> <<"FireMask">>,
                               footprint_asset_bands |-> <<>>]],
   [key |-> "21A2", value |-> [sin_tile_pixels |-> 1200, footprint_assets |-> LstAssets]],
   [key |-> "09A1", value |-> [sin_tile_pixels |-> 2400, footprint_assets |-> SurReflAssets(7)]],
   [key |-> "09GA", value |-> [sin_tile_pixels |-> 2400, footprint_assets |-> SurReflAssets(7)]],
   [key |-> "09GQ", value |-> [sin_tile_pixels |-> 4800, footprint_assets |-> SurReflAssets(2)]],
   [key |-> "10A1", value |-> [sin_tile_pixels |-> 2400,
                               footprint_assets |-> <<"NDSI_Snow_Cover", "Snow_Albedo_Daily_Tile">>]],
   [key |-> "10A2", value |-> [sin_tile_pixels |-> 2400, footprint_assets |-> <<"Maximum_Snow_Extent">>]],
   [key |-> "12Q1", value |-> [sin_tile_pixels |-> 2400]],
   [key |-> "13A1", value |-> [sin_tile_pixels |-> 2400, footprint_assets |-> <<"500m_16_days_NDVI">>]],
   [key |-> "13A2", value |-> [sin_tile_pixels |-> 1200, footprint_assets |-> <<"1km_16_days_NDVI">>]],
   [key |-> "13A3", value |-> [sin_tile_pixels |-> 1200, footprint_assets |-> <<"1km_monthly_NDVI">>]],
   [key |-> "13Q1", value |-> [sin_tile_pixels |-> 4800, footprint_assets |-> <<"250m_16_days_NDVI">>]],
   [key |-> "15A2H", value |-> [sin_tile_pixels |-> 2400, footprint_assets |-> <<"Fpar_500m">>]],
   [key |-> "15A3H", value |-> [sin_tile_pixels |-> 2400, footprint_assets |-> <<"Fpar_500m">>]],
   [key |-> "16A3GF", value |-> [sin_tile_pixels |-> 2400, footprint_assets |-> <<"ET_500m">>]],
   [key |-> "17A2H", value |-> [sin_tile_pixels |-> 2400, footprint_assets |-> <<"Gpp_500m">>]],
   [key |-> "17A2HGF", value |-> [sin_tile_pixels |-> 2400, footprint_assets |-> <<"Gpp_500m">>]],
   [key |-> "17A3HGF", value |-> [sin_tile_pixels |-> 2400, footprint_assets |-> <<"Gpp_500m">>]],
   [key |-> "43A4", value |-> [sin_tile_pixels |-> 2400, footprint_assets |-> NadirAssets]],
   [key |-> "44W", value |-> [sin_tile_pixels |-> 2400]],
   [key |-> "64A1", value |-> [sin_tile_pixels |-> 2400, footprint_assets |-> <<"Burn_Date">>]],
   [key |-> "09Q1", value |-> [sin_tile_pixels |-> 4800,
                               footprint_assets |-> <<"sur_refl_b01", "sur_refl_b02">>]],
   [key |-> "13Q1", value |-> [sin_tile_pixels |-> 4800, footprint_assets |-> <<"250m_16_days_NDVI">>]],
   [key |-> "44B", value |-> [sin_tile_pixels |-> 4800]] >>

\* The i-th key/value pair of the literal, and a variant in which the pair
\* of "12Q1" carries no sin_tile_pixels and that of "44B" drops a digit.
LiteralEntryTypo(i) ==
   IF FootprintLiteral[i].key = "12Q1"
   THEN [key |-> "12Q1", value |-> [footprint_assets |-> <<>>]]
   ELSE IF FootprintLiteral[i].key = "44B"
        THEN [key |-> "44B", value |-> [sin_tile_pixels |-> 480]]
        ELSE FootprintLiteral[i]
LiteralEntry(i) == FootprintLiteral[i]
\* The keys written in the literal, and the fields an entry may carry.
LiteralKeys == {FootprintLiteral[i].key : i \in 1..Len(FootprintLiteral)}
EntryFields == {"sin_tile_pixels", "footprint_assets", "footprint_asset_bands"}
\* Evaluating a dict display: each key/value pair is stored in source order,
\* so a later pair with the same key replaces the earlier one.
DictStore(d, k, val) == [x \in (DOMAIN d) \cup {k} |-> IF x = k THEN val ELSE d[x]]
RECURSIVE DictOfPairs(_, _)
DictOfPairs(pairs, n) ==
   IF n = 0 THEN [x \in {} |-> [sin_tile_pixels |-> 0]]
   ELSE DictStore(DictOfPairs(pairs, n - 1), pairs[n].key, pairs[n].value)
COLLECTION_FOOTPRINT_METADATA == DictOfPairs(FootprintLiteral, Len(FootprintLiteral))
\* The pixel resolutions the products declare.
SinTilePixels == {COLLECTION_FOOTPRINT_METADATA[k].sin_tile_pixels :
                     k \in DOMAIN COLLECTION_FOOTPRINT_METADATA}

(***************************************************************************)
(* Grid Projector (section 4.1).  A Sinusoidal Point is [xn, yn, d]: the   *)
(* point (xn/d, yn/d) in tile edges.  A Geographic Point is [lon, lat] in  *)
(* 1/GeoScale degrees.                                                     *)
(***************************************************************************)
Abs(a) == IF a < 0 THEN -a ELSE a
RECURSIVE GCD(_, _)
GCD(a, b) == IF b = 0 THEN a ELSE GCD(b, a % b)
\* a/b rounded to the nearest integer (b > 0), halves upwards.
RoundDiv(a, b) == (2 * a + b) \div (2 * b)

\* x = GRID_X_MIN + h * TILE_METERS, y = GRID_Y_MAX - v * TILE_METERS.
tile_origin(h, v) ==
   [xn |-> SINUSOIDAL_X_MIN + h, yn |-> SINUSOIDAL_Y_MAX - v, d |-> 1]

\* x = origin.x + col * pixel_size, y = origin.y - row * pixel_size, with
\* pixel_size = TILE_METERS / pixels_per_edge.
pixel_to_sinusoidal(origin, row, col, pixels) ==
   [xn |-> origin.xn * pixels + col * origin.d,
    yn |-> origin.yn * pixels - row * origin.d,
    d  |-> origin.d * pixels]

\* cos of the latitude u * TileDegrees, u = yn/d tile edges, as the rational
\* CosNum/CosDen of Bhaskara's approximation
\*    cos(t degrees) ~ (32400 - 4 t^2) / (32400 + t^2),  |t| <= 90
\* (within 0.0017 of the cosine; zero exactly at the poles).
CosNum(yn, d) == HalfTurnTiles * HalfTurnTiles * d * d - 4 * yn * yn
CosDen(yn, d) == HalfTurnTiles * HalfTurnTiles * d * d + yn * yn

\* latitude = y / R, longitude = x / (R * cos(latitude)), in degrees and
\* rounded to the fixed decimal precision.
sinusoidal_to_geographic(p) ==
   LET gy == GCD(Abs(p.yn), p.d)
       gx == GCD(Abs(p.xn), p.d)
       yn == p.yn \div gy
       yd == p.d \div gy
       xn == p.xn \div gx
       xd == p.d \div gx
   IN [lon |-> RoundDiv(GeoScale * TileDegrees * xn * CosDen(yn, yd),
                        xd * CosNum(yn, yd)),
       lat |-> RoundDiv(GeoScale * TileDegrees * yn, yd)]

pixel_to_geographic(h, v, row, col, pixels) ==
   sinusoidal_to_geographic(pixel_to_sinusoidal(tile_origin(h, v), row, col, pixels))

(***************************************************************************)
(* Footprint Geometry: rings, their area and bounding box (section 3).     *)
(***************************************************************************)
SetMin(S) == CHOOSE m \in S : \A x \in S : m <= x
SetMax(S) == CHOOSE m \in S : \A x \in S : m >= x
Lons(ring) == {ring[i].lon : i \in DOMAIN ring}
Lats(ring) == {ring[i].lat : i \in DOMAIN ring}
\* [west, south, east, north]: the extrema of the ring's coordinates.
BoundingBox(ring) ==
   IF ring = <<>> THEN <<>>
   ELSE <<SetMin(Lons(ring)), SetMin(Lats(ring)), SetMax(Lons(ring)), SetMax(Lats(ring))>>
\* Append the first point to close the ring.
CloseRing(points) == IF points = <<>> THEN <<>> ELSE Append(points, points[1])

\* Twice the signed area of a ring (shoelace sum, taken relative to the
\* first point).
RECURSIVE Shoelace2(_, _)
Shoelace2(ring, i) ==
   IF i >= Len(ring) THEN 0
   ELSE LET ax == ring[i].lon - ring[1].lon
            ay == ring[i].lat - ring[1].lat
            bx == ring[i + 1].lon - ring[1].lon
            by == ring[i + 1].lat - ring[1].lat
        IN (ax * by - bx * ay) + Shoelace2(ring, i + 1)
RingArea2(ring) == Abs(Shoelace2(ring, 1))
\* The invariant of a Footprint Geometry: at least 4 points, first and last
\* identical, non-zero enclosed area.
ValidRing(ring) ==
   /\ Len(ring) >= 4
   /\ ring[1] = ring[Len(ring)]
   /\ RingArea2(ring) > 0

(***************************************************************************)
(* Footprint Builder, full-tile mode (section 4.2): the four corners       *)
(* northwest, northeast, southeast, southwest, and the closing point (the  *)
(* variant gives northwest, northeast, southwest, northeast).              *)
(***************************************************************************)
FullTileRingSwapped(h, v, pixels) ==
   CloseRing(<<pixel_to_geographic(h, v, 0, 0, pixels),
               pixel_to_geographic(h, v, 0, pixels, pixels),
               pixel_to_geographic(h, v, pixels, 0, pixels),
               pixel_to_geographic(h, v, 0, pixels, pixels)>>)
FullTileRing(h, v, pixels) ==
   CloseRing(<<pixel_to_geographic(h, v, 0, 0, pixels),
               pixel_to_geographic(h, v, 0, pixels, pixels),
               pixel_to_geographic(h, v, pixels, pixels, pixels),
               pixel_to_geographic(h, v, pixels, 0, pixels)>>)
\* The item record's spatial fields.
ItemOf(ring) == [geometry |-> ring, bbox |-> BoundingBox(ring)]
NoItem == [geometry |-> <<>>, bbox |-> <<>>]
FullTileItem(h, v, pixels) == ItemOf(FullTileRing(h, v, pixels))

(***************************************************************************)
(* Footprint Builder, raster-footprint mode (section 4.2, steps 1-6).      *)
(* A raster band is its pixel array in row-major order (pixel <<row, col>>  *)
(* is element row * pixels + col + 1) with a declared fill value.          *)
(***************************************************************************)
CellAt(i, pixels) == <<(i - 1) \div pixels, (i - 1) % pixels>>
PixelValues == {0, 1}
FillValues == {0}
Bands(pixels) == {[fill |-> f, data |-> d] :
                     f \in FillValues, d \in [1..(pixels * pixels) -> PixelValues]}
NoBand == [fill |-> 0, data |-> <<>>]

\* Step 2: the Valid-Data Mask, true where the pixel is not the fill value;
\* kept as the set of positions where it is true.
ValidDataMask(band, pixels) ==
   {CellAt(i, pixels) : i \in {j \in DOMAIN band.data : band.data[j] # band.fill}}

\* Step 4: the convex hull of a set of pixel positions, by the monotone
\* chain: the positions in lexicographic order, a lower and an upper chain
\* that keep only strict left turns.
Cross(o, a, b) == (a[1] - o[1]) * (b[2] - o[2]) - (a[2] - o[2]) * (b[1] - o[1])
\* The positions of a set in lexicographic (row, col) order.
SortedCells(S, pixels) ==
   LET all == [i \in 1..(pixels * pixels) |-> CellAt(i, pixels)]
   IN SelectSeq(all, LAMBDA c : c \in S)
Reverse(s) == [i \in 1..Len(s) |-> s[Len(s) + 1 - i]]
Front(s) == SubSeq(s, 1, Len(s) - 1)
\* Drop the top of the chain while it does not turn left towards p (the
\* variant drops it while it does turn left).
RECURSIVE PopWhileWrongTurn(_, _)
PopWhileWrongTurn(stack, p) ==
   IF Len(stack) >= 2 /\ Cross(stack[Len(stack) - 1], stack[Len(stack)], p) > 0
   THEN PopWhileWrongTurn(Front(stack), p)
   ELSE stack
RECURSIVE PopWhile(_, _)
PopWhile(stack, p) ==
   IF Len(stack) >= 2 /\ Cross(stack[Len(stack) - 1], stack[Len(stack)], p) <= 0
   THEN PopWhile(Front(stack), p)
   ELSE stack
RECURSIVE Chain(_, _, _)
Chain(pts, i, stack) ==
   IF i > Len(pts) THEN stack
   ELSE Chain(pts, i + 1, Append(PopWhile(stack, pts[i]), pts[i]))
ConvexHull(S, pixels) ==
   LET pts == SortedCells(S, pixels)
   IN IF Len(pts) <= 1 THEN pts
      ELSE Front(Chain(pts, 1, <<>>)) \o Front(Chain(Reverse(pts), 1, <<>>))

\* Steps 5 and 6: project each hull vertex and close the ring.
HullRing(h, v, hull, pixels) ==
   CloseRing([i \in 1..Len(hull) |->
                 pixel_to_geographic(h, v, hull[i][1], hull[i][2], pixels)])

\* Twice the area of a polygon of pixel positions, in squared pixels of the
\* sinusoidal plane.
RECURSIVE PixelShoelace2(_, _)
PixelShoelace2(poly, i) ==
   IF i > Len(poly) THEN 0
   ELSE LET a == poly[i]
            b == poly[(i % Len(poly)) + 1]
        IN (a[1] * b[2] - b[1] * a[2]) + PixelShoelace2(poly, i + 1)
PixelArea2(poly) == Abs(PixelShoelace2(poly, 1))

\* Step 3: an empty mask is the EmptyFootprint condition (the variant skips
\* the test).
FootprintOutcomeUnchecked(m) == "ok"
FootprintOutcome(m) == IF m = {} THEN "EmptyFootprint" ELSE "ok"

(***************************************************************************)
(* State.                                                                  *)
(***************************************************************************)
VARIABLES
   \* create_item / create_item_from_cogs (stac.py)
   pc,               \* position in the call
   entry,            \* which of the two functions was called
   raster_footprint, \* its raster_footprint argument
   create_cogs,      \* its create_cogs argument (FALSE for create_item_from_cogs)
   tile,             \* <<h, v>> of the granule behind the hrefs
   pixels,           \* pixels per tile edge of its product
   item,             \* the item record's geometry and bounding box
   result,           \* what the call gave its caller
   updateCalls,      \* how often update_geometry was invoked
   \* update_geometry (raster-footprint mode)
   before,           \* the item as it was when update_geometry was called
   ugOutcome,        \* "none", "ok", "EmptyFootprint" or "RasterReadFailure"
   handle,           \* TRUE while the raster resource is held
   everHeld,         \* TRUE once the raster resource was acquired
   band,             \* the band read
   mask,             \* the Valid-Data Mask: the valid pixel positions
   hull,             \* the hull vertices, in pixel positions
   validCount,       \* number of valid pixels found, -1 before the mask is built
   \* import of constants.py
   tblIdx,           \* next key/value pair of the dict literal to evaluate
   table,            \* COLLECTION_FOOTPRINT_METADATA as built so far
   lookup,           \* the last subscript evaluated on the table
   \* create_collection (stac.py)
   cpc,              \* position in create_collection
   bands,            \* fragments.bands(): the keys of each band fragment, in order
   bandIdx,          \* the band the loop is at
   stac_extensions,  \* collection.stac_extensions
   sci               \* "sci:publications" in fragment

itemVars == <<pc, entry, raster_footprint, create_cogs, tile, pixels, item, result,
              updateCalls, before, ugOutcome, handle, everHeld, band, mask, hull,
              validCount>>
tableVars == <<tblIdx, table, lookup>>
collVars == <<cpc, bands, bandIdx, stac_extensions, sci>>
vars == <<itemVars, tableVars, collVars>>

NoResult == [kind |-> "none", error |-> "none", item |-> NoItem]
NoLookup == [key |-> "", field |-> "", found |-> FALSE, pixels |-> 0]
EmptyDict == DictOfPairs(<<>>, 0)

\* The parts of the state a specification does not use.
ItemIdle ==
   /\ pc = "idle" /\ entry = "create_item"
   /\ raster_footprint = FALSE /\ create_cogs = FALSE
   /\ tile = <<10, 5>> /\ pixels = PixelsPerEdge
   /\ item = NoItem /\ result = NoResult /\ updateCalls = 0
   /\ before = NoItem /\ ugOutcome = "none" /\ handle = FALSE /\ everHeld = FALSE
   /\ band = NoBand /\ mask = {} /\ hull = <<>> /\ validCount = -1
TableIdle == tblIdx = 0 /\ table = EmptyDict /\ lookup = NoLookup
CollIdle ==
   /\ cpc = "idle" /\ bands = <<>> /\ bandIdx = 0
   /\ stac_extensions = <<>> /\ sci = FALSE

(***************************************************************************)
(* stac.py: create_item and create_item_from_cogs.                         *)
(***************************************************************************)
CallStart(tiles, resolutions, footprintFlags) ==
   /\ pc = "start"
   /\ entry \in {"create_item", "create_item_from_cogs"}
   /\ raster_footprint \in footprintFlags
   /\ create_cogs \in (IF entry = "create_item" THEN BOOLEAN ELSE {FALSE})
   /\ tile \in tiles /\ pixels \in resolutions
   /\ item = NoItem /\ result = NoResult /\ updateCalls = 0
   /\ before = NoItem /\ ugOutcome = "none" /\ handle = FALSE /\ everHeld = FALSE
   /\ band = NoBand /\ mask = {} /\ hull = <<>> /\ validCount = -1

\* builder = ModisBuilder(...); builder.add_...href(...); item = builder.create_item()
\* The builder gives the item the full-tile geometry.
BuilderCreateItem ==
   /\ pc = "start"
   /\ item' = FullTileItem(tile[1], tile[2], pixels)
   /\ pc' = "built"
   /\ UNCHANGED <<entry, raster_footprint, create_cogs, tile, pixels, result,
                  updateCalls, before, ugOutcome, handle, everHeld, band, mask, hull,
                  validCount, tableVars, collVars>>

\* "if raster_footprint: if create_cogs:" in create_item, "if raster_footprint:"
\* in create_item_from_cogs (the variant leaves out the create_cogs test).
ShouldUpdateIgnoringCogs(e, rf, cogs) == rf
ShouldUpdateGeometry(e, rf, cogs) ==
   IF e = "create_item" THEN rf /\ cogs ELSE rf

\* update_geometry(item, builder.metadata.collection)
CallUpdateGeometry ==
   /\ pc = "built"
   /\ ShouldUpdateGeometry(entry, raster_footprint, create_cogs)
   /\ updateCalls' = updateCalls + 1
   /\ before' = item
   /\ pc' = "ug_call"
   /\ UNCHANGED <<entry, raster_footprint, create_cogs, tile, pixels, item, result,
                  ugOutcome, handle, everHeld, band, mask, hull, validCount,
                  tableVars, collVars>>

\* raise ValueError("The 'create_cogs' option must be True to use the
\* 'raster_footprint' option.")
RaiseValueError ==
   /\ pc = "built"
   /\ entry = "create_item" /\ raster_footprint /\ ~create_cogs
   /\ result' = [kind |-> "error", error |-> "ValueError", item |-> NoItem]
   /\ pc' = "done"
   /\ UNCHANGED <<entry, raster_footprint, create_cogs, tile, pixels, item,
                  updateCalls, before, ugOutcome, handle, everHeld, band, mask, hull,
                  validCount, tableVars, collVars>>

\* return item
ReturnItem ==
   /\ \/ pc = "built" /\ ~raster_footprint
      \/ pc = "ug_returned"
   /\ result' = [kind |-> "item", error |-> "none", item |-> item]
   /\ pc' = "done"
   /\ UNCHANGED <<entry, raster_footprint, create_cogs, tile, pixels, item,
                  updateCalls, before, ugOutcome, handle, everHeld, band, mask, hull,
                  validCount, tableVars, collVars>>

\* update_geometry is called outside any try block: what it raises leaves the
\* function.  The variant calls update_geometry again instead.
RetryUpdateGeometry ==
   /\ pc = "ug_raised"
   /\ updateCalls' = updateCalls + 1
   /\ pc' = IF updateCalls < 3 THEN "ug_call" ELSE "done"
   /\ result' = IF updateCalls < 3 THEN result
                ELSE [kind |-> "error", error |-> ugOutcome, item |-> NoItem]
   /\ UNCHANGED <<entry, raster_footprint, create_cogs, tile, pixels, item,
                  before, ugOutcome, handle, everHeld, band, mask, hull,
                  validCount, tableVars, collVars>>
PropagateError ==
   /\ pc = "ug_raised"
   /\ result' = [kind |-> "error", error |-> ugOutcome, item |-> NoItem]
   /\ pc' = "done"
   /\ UNCHANGED <<entry, raster_footprint, create_cogs, tile, pixels, item,
                  updateCalls, before, ugOutcome, handle, everHeld, band, mask, hull,
                  validCount, tableVars, collVars>>

(***************************************************************************)
(* update_geometry: raster-footprint mode (sections 4.2, 5 and 7).         *)
(***************************************************************************)
\* The end of the scope that holds the raster resource (the variant keeps
\* holding it).
LeakRaster == handle' = handle
ReleaseRaster == handle' = FALSE

\* Acquire the raster resource; an unreadable file is a RasterReadFailure.
OpenRaster ==
   /\ pc = "ug_call"
   /\ \E ok \in BOOLEAN :
         IF ok
         THEN /\ handle' = TRUE /\ everHeld' = TRUE
              /\ pc' = "ug_opened"
              /\ UNCHANGED ugOutcome
         ELSE /\ ugOutcome' = "RasterReadFailure"
              /\ pc' = "ug_raised"
              /\ UNCHANGED <<handle, everHeld>>
   /\ UNCHANGED <<entry, raster_footprint, create_cogs, tile, pixels, item, result,
                  updateCalls, before, band, mask, hull, validCount,
                  tableVars, collVars>>

\* Step 1: read one representative band's pixel array and its fill value.
ReadBand ==
   /\ pc = "ug_opened"
   /\ \E b \in Bands(pixels) : band' = b
   /\ pc' = "ug_read"
   /\ UNCHANGED <<entry, raster_footprint, create_cogs, tile, pixels, item, result,
                  updateCalls, before, ugOutcome, handle, everHeld, mask, hull,
                  validCount, tableVars, collVars>>

\* Step 1 fails: an I/O or decode error reading the pixel data.
ReadBandFails ==
   /\ pc = "ug_opened"
   /\ ugOutcome' = "RasterReadFailure"
   /\ pc' = "ug_unwinding"
   /\ UNCHANGED <<entry, raster_footprint, create_cogs, tile, pixels, item, result,
                  updateCalls, before, handle, everHeld, band, mask, hull,
                  validCount, tableVars, collVars>>

\* Steps 2 to 6: the mask, the EmptyFootprint condition, the hull, its
\* projection, and the replacement of the item's geometry and bounding box.
ComputeFootprint ==
   /\ pc = "ug_read"
   /\ LET m == ValidDataMask(band, pixels)
          hl == ConvexHull(m, pixels)
      IN /\ mask' = m
         /\ validCount' = Cardinality(m)
         /\ IF FootprintOutcome(m) = "EmptyFootprint"
            THEN /\ ugOutcome' = "EmptyFootprint"
                 /\ pc' = "ug_unwinding"
                 /\ UNCHANGED <<item, hull>>
            ELSE /\ hull' = hl
                 /\ item' = ItemOf(HullRing(tile[1], tile[2], hl, pixels))
                 /\ pc' = "ug_computed"
                 /\ UNCHANGED ugOutcome
   /\ UNCHANGED <<entry, raster_footprint, create_cogs, tile, pixels, result,
                  updateCalls, before, handle, everHeld, band,
                  tableVars, collVars>>

\* The scope ends normally: the resource is released, the band and the mask
\* are dropped, update_geometry returns.
CloseRaster ==
   /\ pc = "ug_computed"
   /\ ReleaseRaster
   /\ ugOutcome' = "ok"
   /\ band' = NoBand /\ mask' = {} /\ hull' = <<>>
   /\ pc' = "ug_returned"
   /\ UNCHANGED <<entry, raster_footprint, create_cogs, tile, pixels, item, result,
                  updateCalls, before, everHeld, validCount, tableVars, collVars>>

\* The scope ends by an error: the resource is released on the way out.
UnwindRaster ==
   /\ pc = "ug_unwinding"
   /\ ReleaseRaster
   /\ band' = NoBand /\ mask' = {} /\ hull' = <<>>
   /\ pc' = "ug_raised"
   /\ UNCHANGED <<entry, raster_footprint, create_cogs, tile, pixels, item, result,
                  updateCalls, before, ugOutcome, everHeld, validCount,
                  tableVars, collVars>>

Init == CallStart(RasterTiles, {PixelsPerEdge}, BOOLEAN) /\ TableIdle /\ CollIdle
Next ==
   \/ BuilderCreateItem
   \/ CallUpdateGeometry
   \/ RaiseValueError
   \/ ReturnItem
   \/ PropagateError
   \/ OpenRaster
   \/ ReadBand
   \/ ReadBandFails
   \/ ComputeFootprint
   \/ CloseRaster
   \/ UnwindRaster
Spec == Init /\ [][Next]_vars

\* Full-tile mode over the whole grid and the products' resolutions.
InitTile == CallStart(AllTiles, SinTilePixels, {FALSE}) /\ TableIdle /\ CollIdle
NextTile == BuilderCreateItem \/ ReturnItem
SpecTile == InitTile /\ [][NextTile]_vars

(***************************************************************************)
(* constants.py at import: the dict literal is evaluated pair by pair;     *)
(* afterwards the table is read by subscript.                              *)
(***************************************************************************)
StorePair ==
   /\ tblIdx \in 1..Len(FootprintLiteral)
   /\ table' = DictStore(table, LiteralEntry(tblIdx).key, LiteralEntry(tblIdx).value)
   /\ tblIdx' = tblIdx + 1
   /\ UNCHANGED <<lookup, itemVars, collVars>>

\* COLLECTION_FOOTPRINT_METADATA[k][f]; a missing field is a KeyError.
Subscript ==
   /\ tblIdx > Len(FootprintLiteral)
   /\ \E k \in DOMAIN table, f \in EntryFields :
         lookup' = [key |-> k, field |-> f, found |-> f \in DOMAIN table[k],
                    pixels |-> IF f = "sin_tile_pixels" /\ f \in DOMAIN table[k]
                               THEN table[k].sin_tile_pixels ELSE 0]
   /\ UNCHANGED <<tblIdx, table, itemVars, collVars>>

InitTable == tblIdx = 1 /\ table = EmptyDict /\ lookup = NoLookup /\ ItemIdle /\ CollIdle
NextTable == StorePair \/ Subscript
SpecTable == InitTable /\ [][NextTable]_vars

(***************************************************************************)
(* stac.py: create_collection, the extension list.  A schema URI is kept   *)
(* as its text; Python orders strings by code point, and the five URIs     *)
(* share the prefix "https://stac-extensions.github.io/", so their order   *)
(* is that of the code points of the path segment that follows it.         *)
(***************************************************************************)
CLASSIFICATION_EXTENSION_HREF ==
   "https://stac-extensions.github.io/classification/v1.0.0/schema.json"
EO_SCHEMA_URI == "https://stac-extensions.github.io/eo/v1.1.0/schema.json"
RASTER_SCHEMA_URI == "https://stac-extensions.github.io/raster/v1.1.0/schema.json"
ITEM_ASSETS_SCHEMA_URI == "https://stac-extensions.github.io/item-assets/v1.0.0/schema.json"
SCIENTIFIC_SCHEMA_URI == "https://stac-extensions.github.io/scientific/v1.0.0/schema.json"
\* The code points of the segment after the common prefix.
PathCodes(uri) ==
   CASE uri = CLASSIFICATION_EXTENSION_HREF ->
           <<99, 108, 97, 115, 115, 105, 102, 105, 99, 97, 116, 105, 111, 110>>
     [] uri = EO_SCHEMA_URI -> <<101, 111>>
     [] uri = RASTER_SCHEMA_URI -> <<114, 97, 115, 116, 101, 114>>
     [] uri = ITEM_ASSETS_SCHEMA_URI ->
           <<105, 116, 101, 109, 45, 97, 115, 115, 101, 116, 115>>
     [] uri = SCIENTIFIC_SCHEMA_URI ->
           <<115, 99, 105, 101, 110, 116, 105, 102, 105, 99>>
RECURSIVE CodesLess(_, _, _)
CodesLess(a, b, i) ==
   IF i > Len(a) THEN i <= Len(b)
   ELSE IF i > Len(b) THEN FALSE
   ELSE IF a[i] # b[i] THEN a[i] < b[i]
   ELSE CodesLess(a, b, i + 1)
\* a < b as Python compares str.
StrLess(a, b) == CodesLess(PathCodes(a), PathCodes(b), 1)

Range(s) == {s[i] : i \in DOMAIN s}
\* list(set(xs)): each element once, in the set's own order.
RECURSIVE SetToList(_)
SetToList(S) ==
   IF S = {} THEN <<>>
   ELSE LET x == CHOOSE y \in S : TRUE IN <<x>> \o SetToList(S \ {x})
Dedupe(xs) == SetToList(Range(xs))
\* xs.sort(): ascending, every occurrence kept.
RECURSIVE InsertSorted(_, _)
InsertSorted(sorted, x) ==
   IF sorted = <<>> THEN <<x>>
   ELSE IF StrLess(x, Head(sorted)) THEN <<x>> \o sorted
   ELSE <<Head(sorted)>> \o InsertSorted(Tail(sorted), x)
RECURSIVE SortList(_, _)
SortList(xs, n) == IF n = 0 THEN <<>> ELSE InsertSorted(SortList(xs, n - 1), xs[n])
\* Extension.add_to / ext(..., add_if_missing=True): append the schema URI
\* unless the list has it already.
AddExtension(xs, uri) == IF uri \in Range(xs) THEN xs ELSE Append(xs, uri)

\* The keys a band fragment may have before the loop touches it.
BandKeys == {"roles", "eo:bands", "raster:bands", "classification:classes"}
RECURSIVE SeqsUpTo(_, _)
SeqsUpTo(S, n) ==
   IF n = 0 THEN {<<>>}
   ELSE SeqsUpTo(S, n - 1) \cup {Append(q, x) : q \in {r \in SeqsUpTo(S, n - 1) : Len(r) = n - 1}, x \in S}

\* One extension per key the band has, in the order of the three tests (the
\* variant chains the tests with elif and skips the classification one).
BandExtensionsFirstOnly(xs, band0) ==
   IF "eo:bands" \in band0 /\ EO_SCHEMA_URI \notin Range(xs)
   THEN Append(xs, EO_SCHEMA_URI)
   ELSE IF "raster:bands" \in band0 /\ RASTER_SCHEMA_URI \notin Range(xs)
        THEN Append(xs, RASTER_SCHEMA_URI)
        ELSE xs
BandExtensions(xs, band0) ==
   LET a == IF "eo:bands" \in band0 THEN Append(xs, EO_SCHEMA_URI) ELSE xs
       b == IF "raster:bands" \in band0 THEN Append(a, RASTER_SCHEMA_URI) ELSE a
   IN IF "classification:classes" \in band0
      THEN Append(b, CLASSIFICATION_EXTENSION_HREF) ELSE b

\* for name, band in fragments.bands().items(): one iteration.
LoopBand ==
   /\ cpc = "loop"
   /\ bandIdx <= Len(bands)
   /\ bands' = [bands EXCEPT ![bandIdx] = @ \cup {"roles", "type"}]
   /\ stac_extensions' = BandExtensions(stac_extensions, bands'[bandIdx])
   /\ bandIdx' = bandIdx + 1
   /\ UNCHANGED <<cpc, sci, itemVars, tableVars>>

\* After the loop: list(set(...)), sort(), ItemAssetsExtension.ext(collection,
\* add_if_missing=True), and ScientificExtension.add_to(collection) when the
\* fragment has "sci:publications"; return collection.
FinishCollection ==
   /\ cpc = "loop"
   /\ bandIdx > Len(bands)
   /\ LET deduped == Dedupe(stac_extensions)
          sorted == SortList(deduped, Len(deduped))
          assets == AddExtension(sorted, ITEM_ASSETS_SCHEMA_URI)
      IN stac_extensions' =
            IF sci THEN AddExtension(assets, SCIENTIFIC_SCHEMA_URI) ELSE assets
   /\ cpc' = "done"
   /\ UNCHANGED <<bands, bandIdx, sci, itemVars, tableVars>>

InitCollection ==
   /\ cpc = "loop"
   /\ bands \in SeqsUpTo(SUBSET BandKeys, MaxBands)
   /\ bandIdx = 1
   /\ stac_extensions = <<>>
   /\ sci \in BOOLEAN
   /\ ItemIdle /\ TableIdle
NextCollection == LoopBand \/ FinishCollection
SpecCollection == InitCollection /\ [][NextCollection]_vars

(***************************************************************************)
(* Properties.                                                             *)
(***************************************************************************)
FootprintErrors == {"EmptyFootprint", "RasterReadFailure"}
\* The item as the builder left it.
BuilderItem == FullTileItem(tile[1], tile[2], pixels)

\* C1: in create_item, raster_footprint has no effect if create_cogs is False:
\* the call with raster_footprint = True and create_cogs = False completes
\* normally and returns the item as the builder built it, and update_geometry
\* is not invoked.
C1_RasterFootprintNoEffectWithoutCogs ==
   (pc = "done" /\ entry = "create_item" /\ raster_footprint /\ ~create_cogs)
      => /\ result.kind = "item"
         /\ result.item = BuilderItem
         /\ updateCalls = 0

\* C2: a failure of the footprint computation (EmptyFootprint or
\* RasterReadFailure) ends the call in that error: no item is returned, no
\* further step of the computation runs, and update_geometry is not invoked a
\* second time.
C2_FailurePropagatesWithoutRetry ==
   /\ updateCalls <= 1
   /\ ugOutcome \in FootprintErrors => pc \in {"ug_unwinding", "ug_raised", "done"}
   /\ (pc = "done" /\ ugOutcome \in FootprintErrors)
         => /\ result.kind = "error"
            /\ result.error = ugOutcome
            /\ result.item = NoItem
C2_Witness ==
   /\ pc = "done" /\ entry = "create_item" /\ raster_footprint /\ create_cogs
   /\ ugOutcome = "RasterReadFailure" /\ result.kind = "error" /\ updateCalls = 1

\* C3: when every pixel of the band equals the fill value (the mask has no
\* valid pixel), the outcome is EmptyFootprint and the item's geometry and
\* bounding box are what they were before the call; nothing is written.
C3_EmptyMaskIsEmptyFootprint ==
   validCount = 0
      => /\ ugOutcome = "EmptyFootprint"
         /\ item = before
         /\ item = BuilderItem
         /\ pc = "done" => (result.kind = "error" /\ result.error = "EmptyFootprint")
C3_Witness ==
   pc = "done" /\ validCount = 0 /\ everHeld /\ ugOutcome = "EmptyFootprint"

\* C4: no partial geometry is observable: in every terminal state of a
\* footprint computation either the item holds a complete closed ring (at
\* least 4 points, first equal to last, non-zero area) with the bounding box of
\* that ring's extrema, or an error was signaled and the geometry and the
\* bounding box are unchanged.
C4_NoPartialGeometry ==
   pc \in {"built", "ug_returned", "ug_raised", "done"}
      => \/ ugOutcome \in FootprintErrors /\ item = before
         \/ /\ ugOutcome \notin FootprintErrors
            /\ ValidRing(item.geometry)
            /\ item.bbox = BoundingBox(item.geometry)

\* C5: every entry of COLLECTION_FOOTPRINT_METADATA declares sin_tile_pixels,
\* and the value is 1200, 2400 or 4800; this holds of every pair written in
\* the literal, of the table while it is built and once it is complete (a key
\* written twice keeps its last pair), and of every subscript read from it.
AllowedTilePixels == {1200, 2400, 4800}
DeclaresTilePixels(e) ==
   "sin_tile_pixels" \in DOMAIN e /\ e.sin_tile_pixels \in AllowedTilePixels
LastPairOf(k) ==
   LET i == CHOOSE j \in 1..Len(FootprintLiteral) :
               /\ FootprintLiteral[j].key = k
               /\ \A m \in (j + 1)..Len(FootprintLiteral) : FootprintLiteral[m].key # k
   IN LiteralEntry(i).value
C5_EveryEntryDeclaresTilePixels ==
   /\ \A i \in 1..Len(FootprintLiteral) : DeclaresTilePixels(LiteralEntry(i).value)
   /\ \A k \in DOMAIN table : DeclaresTilePixels(table[k])
   /\ tblIdx > Len(FootprintLiteral)
         => /\ DOMAIN table = LiteralKeys
            /\ \A k \in LiteralKeys : table[k] = LastPairOf(k)
   /\ (lookup.key # "" /\ lookup.field = "sin_tile_pixels")
         => (lookup.found /\ lookup.pixels \in AllowedTilePixels)
C5_Witness ==
   /\ tblIdx > Len(FootprintLiteral)
   /\ lookup.key = "13Q1" /\ lookup.field = "sin_tile_pixels" /\ lookup.pixels = 4800

\* C6: for every non-empty set of valid pixels, the convex hull computed lies
\* within the tile: its area in the sinusoidal plane is at most the area of the
\* full-tile rectangle, every valid pixel lies inside or on the hull, every
\* hull vertex is a valid pixel, and the hull turns strictly left at each
\* vertex; the ring written has one point per hull vertex and the closing one.
InHull(p, hl) ==
   IF Len(hl) = 1 THEN p = hl[1]
   ELSE IF Len(hl) = 2
        THEN /\ Cross(hl[1], hl[2], p) = 0
             /\ \A c \in 1..2 :
                   \/ hl[1][c] <= p[c] /\ p[c] <= hl[2][c]
                   \/ hl[2][c] <= p[c] /\ p[c] <= hl[1][c]
        ELSE \A i \in 1..Len(hl) : Cross(hl[i], hl[(i % Len(hl)) + 1], p) >= 0
StrictlyConvex(hl) ==
   Len(hl) >= 3 =>
      \A i \in 1..Len(hl) :
         Cross(hl[i], hl[(i % Len(hl)) + 1], hl[((i + 1) % Len(hl)) + 1]) > 0
C8_RasterReleased ==
   /\ handle => pc \in {"ug_opened", "ug_read", "ug_computed", "ug_unwinding"}
   /\ handle => everHeld
   /\ pc \in {"ug_returned", "ug_raised", "done"} => ~handle
C8_Witness ==
   pc = "ug_raised" /\ everHeld /\ ~handle /\ ugOutcome = "RasterReadFailure"

\* C9: update_geometry is invoked at most once, only on the item the builder
\* produced, and only when raster_footprint is true (and create_cogs too, in
\* create_item); when raster_footprint is false the item returned has the
\* builder's full-tile geometry and update_geometry never ran.
C9_UpdateGeometryOnlyWhenRequested ==
   /\ updateCalls \in {0, 1}
   /\ updateCalls = 1
         => /\ before = BuilderItem
            /\ raster_footprint
            /\ entry = "create_item" => create_cogs
   /\ (pc = "done" /\ ~raster_footprint)
         => /\ result.kind = "item"
            /\ result.item = BuilderItem
            /\ updateCalls = 0
            /\ ugOutcome = "none"
C9_Witness ==
   /\ pc = "done" /\ updateCalls = 1 /\ result.kind = "item"
   /\ entry = "create_item_from_cogs" /\ result.item # BuilderItem

\* C10, as stated: after create_collection the stac_extensions list has no
\* duplicates, is in ascending order, and contains the EO, raster and
\* classification schema URIs exactly when some band has the matching key.
HasKey(k) == \E i \in 1..Len(bands) : k \in bands[i]
NoDuplicates(xs) == \A i, j \in 1..Len(xs) : i # j => xs[i] # xs[j]
Ascending(xs) == \A i \in 1..(Len(xs) - 1) : StrLess(xs[i], xs[i + 1])
BandUris == {EO_SCHEMA_URI, RASTER_SCHEMA_URI, CLASSIFICATION_EXTENSION_HREF}
ExtensionsMatchBands ==
   /\ EO_SCHEMA_URI \in Range(stac_extensions) <=> HasKey("eo:bands")
   /\ RASTER_SCHEMA_URI \in Range(stac_extensions) <=> HasKey("raster:bands")
   /\ CLASSIFICATION_EXTENSION_HREF \in Range(stac_extensions)
         <=> HasKey("classification:classes")
C10_SortedWholeList ==
   cpc = "done"
      => /\ NoDuplicates(stac_extensions)
         /\ Ascending(stac_extensions)
         /\ ExtensionsMatchBands

\* C10, amended: the list has no duplicates and matches the bands' keys; the
\* EO, raster and classification URIs come first, in ascending order, and are
\* followed by the item-assets URI and, when the fragment has
\* "sci:publications", the scientific URI, both appended after the sort.
C10_SortedBandExtensions ==
   cpc = "done"
      => LET bandPart == SelectSeq(stac_extensions, LAMBDA u : u \in BandUris)
         IN /\ NoDuplicates(stac_extensions)
            /\ ExtensionsMatchBands
            /\ Ascending(bandPart)
            /\ stac_extensions =
                  bandPart \o <<ITEM_ASSETS_SCHEMA_URI>>
                           \o (IF sci THEN <<SCIENTIFIC_SCHEMA_URI>> ELSE <<>>)
C10_Witness ==
   /\ cpc = "done" /\ Len(bands) = 2
   /\ \A i \in 1..2 : {"raster:bands", "eo:bands"} \subseteq bands[i]
   /\ sci
   /\ Len(stac_extensions) = 4

=============================================================================
